---- MODULE Spec2Model ----
(***************************************************************************)
(* Model of crates/swift-bridge-ir/src/parsed_extern_fn/to_swift_func.rs:  *)
(* the three renderings of a parsed extern "Rust" function signature into  *)
(* Swift text                                                              *)
(*   ParsedExternFn::to_swift_param_names_and_types(include_receiver)      *)
(*   ParsedExternFn::to_swift_call_args(include_receiver)                  *)
(*   ParsedExternFn::to_swift_return()                                     *)
(* Strings are TLA+ strings, built with \o exactly as format! and join     *)
(* build them.  A token stream is a sequence of tokens; its to_string()    *)
(* separates the tokens by whitespace and split_whitespace() recovers the  *)
(* same sequence, so the text of a type is kept as its token sequence.     *)
(***************************************************************************)
EXTENDS Integers, Sequences, FiniteSets, TLC

VARIABLES func, include_receiver_if_present, called,
          params, params_ret, args, args_ret, return_ret

vars == <<func, include_receiver_if_present, called,
          params, params_ret, args, args_ret, return_ret>>

(***************************************************************************)
(* Bounds of the input space.                                              *)
(***************************************************************************)
\* The largest number of non-receiver parameters of a signature.
MaxParams == 2

(***************************************************************************)
(* The signature model: syn::Signature as this file reads it.              *)
(***************************************************************************)
\* by value / & / &mut, for a type (syn::Type::Reference) and for a receiver
Quals == {"val", "ref", "refmut"}

\* Type names that occur in the modelled signatures: one built-in, one declared.
BaseTypes == {"u8", "Foo"}

\* Identifiers of the non-receiver parameters.
Idents == {"a", "b"}

\* syn::Type as written in a parameter or return position.
Types == [qual : Quals, base : BaseTypes]

\* FnArg::Receiver: self, &self, &mut self.  It has no written type.
Receivers == [kind : {"Receiver"}, pat : {"self"},
              ty : [qual : Quals, base : {"Self"}]]

\* FnArg::Typed with the pattern `self`: self: T, self: &T, self: &mut T.
TypedSelfs == [kind : {"Typed"}, pat : {"self"}, ty : Types]

\* FnArg::Typed with an ordinary identifier pattern.
NamedArgs == [kind : {"Typed"}, pat : Idents, ty : Types]

\* ReturnType::Default | ReturnType::Type(_, ty)
NoType == [qual |-> "val", base |-> "()"]
ReturnTypes == {[kind |-> "Default", ty |-> NoType]}
                 \cup [kind : {"Type"}, ty : Types]

SeqsUpTo(S, n) == UNION {[1..k -> S] : k \in 0..n}

\* A receiver, in either spelling, comes first and at most once.
ReceiverPrefixes == {<<>>} \cup {<<r>> : r \in Receivers \cup TypedSelfs}

Signatures == {[inputs |-> r \o named, output |-> out] :
                 r \in ReceiverPrefixes,
                 named \in SeqsUpTo(NamedArgs, MaxParams),
                 out \in ReturnTypes}

(***************************************************************************)
(* The type classifier (crate::build_in_types, outside this file).         *)
(***************************************************************************)
None == "None"

\* BuiltInType::with_type: Some(built_in) for a boundary-native type, else None.
\* The classification is a function of the underlying type, not of & / &mut.
with_type(ty) == IF ty.base = "u8" THEN "U8" ELSE None

\* BuiltInType::to_swift: the Swift spelling of a built-in type.
to_swift(built_in) == IF built_in = "U8" THEN "UInt8" ELSE "?"

(***************************************************************************)
(* Text helpers.                                                           *)
(***************************************************************************)
\* ToTokens for a type: `&mut Foo` is the tokens & mut Foo.
ty_to_token_stream(ty) ==
    CASE ty.qual = "val"    -> <<ty.base>>
      [] ty.qual = "ref"    -> <<"&", ty.base>>
      [] ty.qual = "refmut" -> <<"&", "mut", ty.base>>

\* [String]::join(sep), over the text of the entries.
RECURSIVE join(_, _)
join(v, sep) ==
    IF Len(v) = 0 THEN ""
    ELSE IF Len(v) = 1 THEN v[1].text
    ELSE v[1].text \o sep \o join(Tail(v), sep)

\* One pushed String; src (not in the program) records the index of the
\* input it was pushed for.
Entry(i, s) == [src |-> i, text |-> s]

(***************************************************************************)
(* to_swift_param_names_and_types                                          *)
(***************************************************************************)
\* The pushed receiver parameter keeps its place however the guard is wrong.
is_self_pat_never(arg) == FALSE

\* Pat::Ident(pat) if pat.ident.to_string() == "self"
is_self_pat(arg) == arg.pat = "self"

\* Keeps the first token of the type instead of the last.
strip_references_first(ty) == ty_to_token_stream(ty)[1]

\* ty.to_token_stream().to_string().split_whitespace().last().unwrap()
strip_references(ty) ==
    LET tokens == ty_to_token_stream(ty) IN tokens[Len(tokens)]

\* The FnArg::Typed arm after the self check: "<arg_name>: <type>".
typed_param(arg) ==
    LET arg_name == arg.pat
        built_in == with_type(arg.ty)
    IN  IF built_in # None
        THEN arg_name \o ": " \o to_swift(built_in)
        ELSE arg_name \o ": " \o strip_references(arg.ty)

\* for arg in &self.func.sig.inputs { ... }, from input i on.
RECURSIVE params_loop(_, _, _, _)
params_loop(inputs, i, include_receiver, acc) ==
    IF i > Len(inputs) THEN acc
    ELSE LET arg == inputs[i] IN
         IF arg.kind = "Receiver"
         THEN params_loop(inputs, i + 1, include_receiver,
                  IF include_receiver
                  THEN Append(acc, Entry(i, "_ this: UnsafeMutableRawPointer"))
                  ELSE acc)
         ELSE IF is_self_pat(arg)
         THEN params_loop(inputs, i + 1, include_receiver, acc)
         ELSE params_loop(inputs, i + 1, include_receiver,
                  Append(acc, Entry(i, "_ " \o typed_param(arg))))

\* Skips the first input on the assumption that it is the receiver.
param_entries_skip_first(f, include_receiver) ==
    params_loop(f.inputs, 2, include_receiver, <<>>)

\* The Vec `params` when the loop ends.
param_entries(f, include_receiver) ==
    params_loop(f.inputs, 1, include_receiver, <<>>)

\* params.join(", ")
to_swift_param_names_and_types(f, include_receiver) ==
    join(param_entries(f, include_receiver), ", ")

(***************************************************************************)
(* to_swift_call_args                                                      *)
(***************************************************************************)
\* Forwards an opaque value itself instead of its handle field.
typed_call_arg_by_value(arg) == arg.pat

\* The FnArg::Typed arm: the pattern, or "<pattern>.ptr" for a declared type.
typed_call_arg(arg) ==
    IF with_type(arg.ty) # None
    THEN arg.pat
    ELSE arg.pat \o ".ptr"

\* for arg in inputs { ... }, from input i on.
RECURSIVE args_loop(_, _, _, _)
args_loop(inputs, i, include_receiver, acc) ==
    IF i > Len(inputs) THEN acc
    ELSE LET arg == inputs[i] IN
         IF arg.kind = "Receiver"
         THEN args_loop(inputs, i + 1, include_receiver,
                  IF include_receiver
                  THEN Append(acc, Entry(i, "ptr"))
                  ELSE acc)
         ELSE args_loop(inputs, i + 1, include_receiver,
                  Append(acc, Entry(i, typed_call_arg(arg))))

\* Forwards the receiver under the parameter list's local name.
call_arg_entries_this(f, include_receiver) ==
    LET v == args_loop(f.inputs, 1, include_receiver, <<>>)
    IN  [k \in DOMAIN v |->
            IF f.inputs[v[k].src].kind = "Receiver"
            THEN Entry(v[k].src, "this") ELSE v[k]]

\* The Vec `args` when the loop ends.
call_arg_entries(f, include_receiver) ==
    args_loop(f.inputs, 1, include_receiver, <<>>)

\* args.join(", ")
to_swift_call_args(f, include_receiver) ==
    join(call_arg_entries(f, include_receiver), ", ")

(***************************************************************************)
(* to_swift_return                                                         *)
(***************************************************************************)
\* Renders a declared type by its stripped name instead of as a pointer.
to_swift_return_by_name(f) ==
    IF f.output.kind = "Default" THEN ""
    ELSE IF with_type(f.output.ty) # None
         THEN " -> " \o to_swift(with_type(f.output.ty))
         ELSE " -> " \o strip_references(f.output.ty)

to_swift_return(f) ==
    IF f.output.kind = "Default" THEN ""
    ELSE LET built_in == with_type(f.output.ty) IN
         IF built_in # None
         THEN " -> " \o to_swift(built_in)
         ELSE " -> UnsafeMutableRawPointer"

(***************************************************************************)
(* The state machine: one parsed function, one flag, and the three         *)
(* renderings applied to it in any order.                                  *)
(***************************************************************************)
Init ==
    /\ func \in Signatures
    /\ include_receiver_if_present \in BOOLEAN
    /\ called = {}
    /\ params = <<>>
    /\ params_ret = ""
    /\ args = <<>>
    /\ args_ret = ""
    /\ return_ret = ""

CallParamNamesAndTypes ==
    /\ "params" \notin called
    /\ called' = called \cup {"params"}
    /\ params' = param_entries(func, include_receiver_if_present)
    /\ params_ret' = to_swift_param_names_and_types(func, include_receiver_if_present)
    /\ UNCHANGED <<func, include_receiver_if_present, args, args_ret, return_ret>>

CallCallArgs ==
    /\ "args" \notin called
    /\ called' = called \cup {"args"}
    /\ args' = call_arg_entries(func, include_receiver_if_present)
    /\ args_ret' = to_swift_call_args(func, include_receiver_if_present)
    /\ UNCHANGED <<func, include_receiver_if_present, params, params_ret, return_ret>>

CallReturn ==
    /\ "return" \notin called
    /\ called' = called \cup {"return"}
    /\ return_ret' = to_swift_return(func)
    /\ UNCHANGED <<func, include_receiver_if_present, params, params_ret, args, args_ret>>

Next == CallParamNamesAndTypes \/ CallCallArgs \/ CallReturn

Spec == Init /\ [][Next]_vars

TypeOK ==
    /\ func \in Signatures
    /\ include_receiver_if_present \in BOOLEAN
    /\ called \subseteq {"params", "args", "return"}

(***************************************************************************)
(* Vocabulary of the properties.                                           *)
(***************************************************************************)
\* A receiver in any of the six spellings.
IsReceiver(arg) ==
    \/ arg.kind = "Receiver"
    \/ arg.kind = "Typed" /\ arg.pat = "self"

HasReceiver(f) == Len(f.inputs) > 0 /\ IsReceiver(f.inputs[1])

OnlyReceiver(f) == Len(f.inputs) = 1 /\ IsReceiver(f.inputs[1])

\* The positions of a list that were pushed for input i.
EntriesFor(v, i) == {k \in DOMAIN v : v[k].src = i}

\* The same signature with its receiver written as plain `self`.
PlainSelf == [kind |-> "Receiver", pat |-> "self",
              ty |-> [qual |-> "val", base |-> "Self"]]
WithPlainSelf(f) == [f EXCEPT !.inputs[1] = PlainSelf]

ParamsCalled == "params" \in called
ArgsCalled == "args" \in called
ReturnCalled == "return" \in called

(***************************************************************************)
(* Properties.                                                             *)
(***************************************************************************)
\* C1: with include_receiver = true, a receiver in any of the six spellings
\* yields exactly one synthetic parameter "_ this: UnsafeMutableRawPointer",
\* and the rendered list is the one the plain `self` spelling gives.
C1_ReceiverParamAllSpellings ==
    (ParamsCalled /\ include_receiver_if_present /\ HasReceiver(func)) =>
        /\ Cardinality(EntriesFor(params, 1)) = 1
        /\ Len(params) >= 1
        /\ params[1] = Entry(1, "_ this: UnsafeMutableRawPointer")
        /\ params_ret = to_swift_param_names_and_types(WithPlainSelf(func), TRUE)

\* C2: with include_receiver = true, a receiver in any of the six spellings
\* is forwarded as the fixed name "ptr" in the first position, followed by
\* the arguments of the remaining parameters.
C2_ReceiverArgAllSpellings ==
    (ArgsCalled /\ include_receiver_if_present /\ HasReceiver(func)) =>
        /\ Len(args) = Len(func.inputs)
        /\ args[1] = Entry(1, "ptr")
        /\ \A k \in 2..Len(args) : args[k].src = k

\* C3: with include_receiver = false, a receiver in any of the six spellings
\* contributes no argument; a receiver-only signature gives "".
C3_NoReceiverArgWhenExcluded ==
    (ArgsCalled /\ ~include_receiver_if_present) =>
        /\ \A k \in DOMAIN args : ~IsReceiver(func.inputs[args[k].src])
        /\ OnlyReceiver(func) => args_ret = ""

\* C4: the parameter list and the argument list rendered with the same flag
\* have the same length and their k-th entries come from the same input.
C4_ListsDescribeSameCall ==
    (ParamsCalled /\ ArgsCalled) =>
        /\ Len(params) = Len(args)
        /\ \A k \in DOMAIN params : k \in DOMAIN args /\ params[k].src = args[k].src

\* C5: with include_receiver = false, a receiver in any of the six spellings
\* contributes no entry to the parameter list; a receiver-only signature
\* gives "".
C5_NoReceiverParamWhenExcluded ==
    (ParamsCalled /\ ~include_receiver_if_present) =>
        /\ \A k \in DOMAIN params : ~IsReceiver(func.inputs[params[k].src])
        /\ OnlyReceiver(func) => params_ret = ""

C5_Witness ==
    /\ ParamsCalled /\ ~include_receiver_if_present
    /\ OnlyReceiver(func)
    /\ func.inputs[1].kind = "Typed"
    /\ func.inputs[1].ty = [qual |-> "refmut", base |-> "Foo"]
    /\ params_ret = ""

\* C6: every named non-receiver parameter has exactly one entry in the
\* parameter list: "_ <name>: <base type name>" when its type is opaque,
\* whatever the qualifier, and "_ <name>: <spelling>" when it is built-in.
C6_NamedParamEntry ==
    ParamsCalled =>
        \A i \in DOMAIN func.inputs :
            LET arg == func.inputs[i] IN
            ~IsReceiver(arg) =>
                /\ Cardinality(EntriesFor(params, i)) = 1
                /\ \A k \in EntriesFor(params, i) :
                      params[k].text =
                          IF with_type(arg.ty) = None
                          THEN "_ " \o arg.pat \o ": " \o arg.ty.base
                          ELSE "_ " \o arg.pat \o ": " \o to_swift(with_type(arg.ty))

C6_Witness ==
    /\ ParamsCalled
    /\ Len(func.inputs) = 3
    /\ func.inputs[2] = [kind |-> "Typed", pat |-> "a", ty |-> [qual |-> "refmut", base |-> "Foo"]]
    /\ func.inputs[3] = [kind |-> "Typed", pat |-> "b", ty |-> [qual |-> "ref", base |-> "u8"]]
    /\ \E k \in DOMAIN params : params[k].text = "_ a: Foo"
    /\ \E k \in DOMAIN params : params[k].text = "_ b: UInt8"

\* C7: every named non-receiver parameter has exactly one entry in the
\* argument list: its identifier when its type is built-in, and
\* "<identifier>.ptr" when it is opaque, whatever the qualifier.
C7_NamedArgEntry ==
    ArgsCalled =>
        \A i \in DOMAIN func.inputs :
            LET arg == func.inputs[i] IN
            ~IsReceiver(arg) =>
                /\ Cardinality(EntriesFor(args, i)) = 1
                /\ \A k \in EntriesFor(args, i) :
                      args[k].text =
                          IF with_type(arg.ty) = None
                          THEN arg.pat \o ".ptr"
                          ELSE arg.pat

C7_Witness ==
    /\ ArgsCalled
    /\ Len(func.inputs) = 2
    /\ func.inputs[1] = [kind |-> "Typed", pat |-> "b", ty |-> [qual |-> "ref", base |-> "Foo"]]
    /\ func.inputs[2] = [kind |-> "Typed", pat |-> "a", ty |-> [qual |-> "val", base |-> "u8"]]
    /\ args_ret = "b.ptr, a"

\* C8: the return clause is "" with no declared return type, " -> <spelling>"
\* for a built-in one and " -> UnsafeMutableRawPointer" for an opaque one
\* by value, by & and by &mut alike; it is a function of the return type only.
C8_ReturnClause ==
    ReturnCalled =>
        return_ret =
            IF func.output.kind = "Default" THEN ""
            ELSE IF with_type(func.output.ty) = None
                 THEN " -> UnsafeMutableRawPointer"
                 ELSE " -> " \o to_swift(with_type(func.output.ty))

C8_Witness ==
    /\ ReturnCalled
    /\ func.output = [kind |-> "Type", ty |-> [qual |-> "refmut", base |-> "Foo"]]
    /\ Len(func.inputs) = 2
    /\ return_ret = " -> UnsafeMutableRawPointer"

\* C9 as stated: with a receiver and include_receiver = true, the name the
\* argument list forwards for the receiver is the local name the parameter
\* list binds the synthetic receiver parameter to.
C9_SameLocalName ==
    (ParamsCalled /\ ArgsCalled /\ include_receiver_if_present /\ HasReceiver(func)) =>
        \E kp \in EntriesFor(params, 1) : \E ka \in EntriesFor(args, 1) :
            params[kp].text = "_ " \o args[ka].text \o ": UnsafeMutableRawPointer"

\* C9 amended: with a receiver written self, &self or &mut self and
\* include_receiver = true, the argument list forwards the fixed name "ptr"
\* and the parameter list binds the synthetic parameter to the fixed local
\* name "this", both in the first position.
C9_FixedNamesPtrAndThis ==
    (ParamsCalled /\ ArgsCalled /\ include_receiver_if_present
       /\ Len(func.inputs) > 0 /\ func.inputs[1].kind = "Receiver") =>
        /\ Len(params) >= 1 /\ params[1] = Entry(1, "_ this: UnsafeMutableRawPointer")
        /\ Len(args) >= 1 /\ args[1] = Entry(1, "ptr")

C9_Witness ==
    /\ ParamsCalled /\ ArgsCalled /\ include_receiver_if_present
    /\ Len(func.inputs) = 2
    /\ func.inputs[1].kind = "Receiver" /\ func.inputs[1].ty.qual = "ref"
    /\ args[1].text = "ptr"
    /\ params[1].text = "_ this: UnsafeMutableRawPointer"

\* C10: for a signature without a receiver the flag has no effect on either
\* list, and each list has one entry per declared parameter, in order.
C10_FlagIrrelevantWithoutReceiver ==
    ~HasReceiver(func) =>
        /\ ParamsCalled =>
              /\ Len(params) = Len(func.inputs)
              /\ \A k \in DOMAIN params : params[k].src = k
              /\ params_ret = to_swift_param_names_and_types(func, ~include_receiver_if_present)
        /\ ArgsCalled =>
              /\ Len(args) = Len(func.inputs)
              /\ \A k \in DOMAIN args : args[k].src = k
              /\ args_ret = to_swift_call_args(func, ~include_receiver_if_present)

C10_Witness ==
    /\ ParamsCalled /\ ArgsCalled /\ include_receiver_if_present
    /\ ~HasReceiver(func)
    /\ Len(func.inputs) = 2
    /\ func.inputs[1].pat = "b" /\ func.inputs[2].pat = "a"
    /\ func.inputs[1].ty.base = "u8" /\ func.inputs[2].ty.base = "u8"
    /\ params_ret = "_ b: UInt8, _ a: UInt8"
    /\ args_ret = "b, a"

====
